---- MODULE Spec2Model ----
(***************************************************************************)
(* The cut-and-remove pipeline of video-subtitle-remover: a producer       *)
(* thread that cuts the rows of an Excel sheet and enqueues one VideoTask  *)
(* per successful cut, a consumer thread that removes subtitles from each  *)
(* dequeued task, and main, which starts and joins both and derives the    *)
(* exit status.                                                            *)
(***************************************************************************)
EXTENDS Integers, Sequences, FiniteSets, TLC

\* ---------------------------------------------------------------- bounds
MaxRows == 3          \* rows of the Excel sheet
MaxFairRows == 2      \* rows of the sheets the termination check runs on
MaxQueueSize == 2     \* largest config.max_queue_size tried (0 = unbounded)
MaxCalls == 3         \* mark_* calls made on one VideoTask
MaxFileTasks == 2     \* tasks queued when the consumer's file effects are followed
MaxDuration == 3      \* longest video, in seconds
MaxSegments == 2      \* removal intervals handed to calculate_keep_segments
MaxCutRows == 2       \* rows of the sheets whose cuts are followed in detail

\* ---------------------------------------------------------------- values
NoPath == ""                          \* an empty / NaN first cell
VideoNames == {"a"}                   \* stems; every suffix is ".mp4"
SegmentChoices == {<< >>, << <<5, 8>> >>}
ErrorChoices == {<< >>, << "unparsable" >>}

\* TaskStatus (task_queue.py)
PENDING == "pending"
PROCESSING == "processing"
COMPLETED == "completed"
FAILED == "failed"

\* the sentinel object; no VideoTask has row_index 0 (rows start at 2)
STOP_SIGNAL ==
    [row_index |-> 0, cut_video_path |-> "", final_output_path |-> "",
     status |-> "stop", error |-> "", processing_stage |-> 0]

\* what one parsed Excel row can hold, apart from its row_index
RowData ==
    [video_path : VideoNames \cup {NoPath},
     segments_to_remove : SegmentChoices,
     errors : ErrorChoices]

\* outcomes of the collaborators the producer calls for a row
ResolveOutcomes == {"found", "not_found"}
CutOutcomes == {"ok", "probe_failed", "encoder_failed"}
\* outcomes of the collaborators the consumer calls for a task
RemoverOutcomes == {"ok", "raised", "output_missing", "move_failed"}

VARIABLES
    max_queue_size,          \* config.max_queue_size
    results,                 \* what read_excel_file returns for the sheet
    valid_results,           \* producer: rows with a video_path
    task_queue,              \* the Queue shared by both threads
    producerPc, row_pos, task,
    producer_success_count, producer_failed_count, producer_failed_tasks,
    consumerPc, consumer_task, processed_count,
    consumer_success_count, consumer_failed_count, consumer_failed_tasks,
    producer_stats, consumer_stats,
    mainPc, exit_code, failed_log,
    log_raised,              \* main: writing the failure log raised
    putLog,                  \* history: every item the producer has put
    getLog,                  \* history: every item the consumer has got
    rowLog,                  \* history: outcome of every row the producer handled
    taskLog,                 \* history: every task whose outcome the consumer recorded
    vt,                      \* one VideoTask: its status, error and processing_stage
    callLog,                 \* history: the mark_* calls made on vt
    keep_intermediate,       \* config.keep_intermediate
    files,                   \* the paths that exist on disk
    fileLog,                 \* history: what _process_video met and did, per task
    total_duration,          \* calculate_keep_segments: its first argument
    remove_segments,         \* calculate_keep_segments: its second argument
    keep_segments,           \* calculate_keep_segments: what it returned
    keepPc,                  \* "idle", "call" or "returned"
    cutLog                   \* history: what remove_video_segments did, per row

configVars == <<max_queue_size, results>>
producerVars == <<valid_results, producerPc, row_pos, task, producer_success_count,
                  producer_failed_count, producer_failed_tasks, putLog, rowLog>>
consumerVars == <<consumerPc, consumer_task, processed_count, consumer_success_count,
                  consumer_failed_count, consumer_failed_tasks, getLog, taskLog>>
mainVars == <<mainPc, exit_code, failed_log, log_raised>>
pipelineVars == <<configVars, task_queue, producerVars, consumerVars, producer_stats,
                  consumer_stats, mainVars>>
taskVars == <<vt, callLog>>
\* what no step of the pipeline touches
fileVars == <<keep_intermediate, files, fileLog>>
keepVars == <<total_duration, remove_segments, keep_segments, keepPc>>
cutVars == <<cutLog>>
otherVars == <<taskVars, fileVars, keepVars, cutVars>>
vars == <<pipelineVars, otherVars>>

NoStats == [set |-> FALSE, total |-> 0, success |-> 0, failed |-> 0,
            failed_tasks |-> << >>]

\* Optional[str] = None
None == "None"

\* a VideoTask built with the dataclass defaults
DefaultTaskState == [status |-> PENDING, error |-> None, processing_stage |-> 0]

\* no VideoTask is under test
TaskIdle == vt = DefaultTaskState /\ callLog = << >>

\* the consumer's file effects are not followed
FilesIdle == keep_intermediate = FALSE /\ files = {} /\ fileLog = << >>

\* calculate_keep_segments is not called
KeepIdle ==
    total_duration = 0 /\ remove_segments = << >> /\ keep_segments = << >> /\ keepPc = "idle"

\* the cuts are not followed in detail
CutIdle == cutLog = << >>

\* read_excel_file: row_index is the DataFrame index + 2
WithRowIndex(rows) ==
    [i \in 1..Len(rows) |->
        [row_index |-> i + 1,
         video_path |-> rows[i].video_path,
         segments_to_remove |-> rows[i].segments_to_remove,
         errors |-> rows[i].errors]]

Sheets == UNION {[1..n -> RowData] : n \in 0..MaxRows}

\* the pipeline before main starts its threads, apart from its inputs
PipelineStart ==
    /\ valid_results = << >>
    /\ task_queue = << >>
    /\ producerPc = "not_started"
    /\ row_pos = 1
    /\ task = STOP_SIGNAL
    /\ producer_success_count = 0
    /\ producer_failed_count = 0
    /\ producer_failed_tasks = << >>
    /\ consumerPc = "not_started"
    /\ consumer_task = STOP_SIGNAL
    /\ processed_count = 0
    /\ consumer_success_count = 0
    /\ consumer_failed_count = 0
    /\ consumer_failed_tasks = << >>
    /\ producer_stats = NoStats
    /\ consumer_stats = NoStats
    /\ mainPc = "start_producer"
    /\ exit_code = -1
    /\ failed_log = << >>
    /\ log_raised = FALSE
    /\ putLog = << >>
    /\ getLog = << >>
    /\ rowLog = << >>
    /\ taskLog = << >>

Init ==
    /\ max_queue_size \in 0..MaxQueueSize
    /\ results \in {WithRowIndex(s) : s \in Sheets}
    /\ PipelineStart
    /\ TaskIdle
    /\ FilesIdle
    /\ KeepIdle
    /\ CutIdle

\* the pipeline is not run: no sheet, no thread started
PipelineIdle ==
    /\ max_queue_size = 0
    /\ results = << >>
    /\ PipelineStart

\* ------------------------------------------------------------- the queue
\* mutant of Full: the queue is created without its maxsize
Full_Unbounded == FALSE

\* Queue(maxsize): put blocks while the queue holds maxsize items; a
\* maxsize <= 0 makes the queue unbounded
Full == max_queue_size > 0 /\ Len(task_queue) >= max_queue_size

\* mutant of Put: the item is appended twice
Put_Twice(q, item) == Append(Append(q, item), item)

\* mutant of Put: the item is inserted at the head
Put_AtHead(q, item) == <<item>> \o q

\* Queue.put: append at the tail
Put(q, item) == Append(q, item)

\* ------------------------------------------------------------- producer
\* mutant of FilterValid: no row is filtered out
FilterValid_KeepAll(rows) == rows

\* the filter of run: rows whose video_path is neither NaN nor empty
FilterValid(rows) == SelectSeq(rows, LAMBDA r : r.video_path # NoPath)

\* VideoProducer.run up to the loop: read the sheet, or raise
ProducerRead ==
    /\ producerPc = "read"
    /\ \/ /\ producerPc' = "raised"
          /\ UNCHANGED <<valid_results>>
       \/ /\ valid_results' = FilterValid(results)
          /\ producerPc' = "loop"
    /\ UNCHANGED <<otherVars, configVars, task_queue, row_pos, task, producer_success_count,
                   producer_failed_count, producer_failed_tasks, putLog, rowLog,
                   consumerVars, producer_stats, consumer_stats, mainVars>>

\* mutant of RowOutcome: parse errors fail a row only when no cell parsed
RowOutcome_ErrorsOnlyWithoutSegments(row_data, resolved, cut) ==
    IF row_data.segments_to_remove = << >>
      THEN (IF row_data.errors # << >> THEN "parse_error" ELSE "no_timestamps")
    ELSE IF resolved = "not_found" THEN "source_not_found"
    ELSE cut

\* _process_video: the reason a row yields no task, or "ok"
RowOutcome(row_data, resolved, cut) ==
    IF row_data.errors # << >> THEN "parse_error"
    ELSE IF row_data.segments_to_remove = << >> THEN "no_timestamps"
    ELSE IF resolved = "not_found" THEN "source_not_found"
    ELSE cut

\* mutant of NewTask: the task is built with the default processing_stage
NewTask_StageZero(row_data) ==
    [row_index |-> row_data.row_index,
     cut_video_path |-> "intermediate/" \o row_data.video_path \o "_cut" \o ".mp4",
     final_output_path |-> "final/" \o row_data.video_path \o "_no_sub" \o ".mp4",
     status |-> COMPLETED,
     error |-> "",
     processing_stage |-> 0]

\* _process_video: the VideoTask built after a successful cut
NewTask(row_data) ==
    [row_index |-> row_data.row_index,
     cut_video_path |-> "intermediate/" \o row_data.video_path \o "_cut" \o ".mp4",
     final_output_path |-> "final/" \o row_data.video_path \o "_no_sub" \o ".mp4",
     status |-> COMPLETED,
     error |-> "",
     processing_stage |-> 1]

\* the failure record run appends for a row without a task
ProducerFailureRecord(row_data) ==
    [row |-> row_data.row_index, video |-> row_data.video_path,
     error |-> "processing failed"]

\* where the loop goes after a row: the next row, or the end of the loop
AfterRow(pos) == IF pos < Len(valid_results) THEN "loop" ELSE "put_stop"

\* mutant of ProducerProcessRow: a row without a task raises out of the loop
\* in place of being recorded
ProducerProcessRow_RaiseOnFailure ==
    /\ producerPc = "loop"
    /\ row_pos <= Len(valid_results)
    /\ \E resolved \in ResolveOutcomes, cut \in CutOutcomes :
        LET row_data == valid_results[row_pos]
            outcome == RowOutcome(row_data, resolved, cut)
        IN /\ rowLog' = Append(rowLog, [row |-> row_data.row_index, outcome |-> outcome])
           /\ IF outcome = "ok"
                THEN /\ task' = NewTask(row_data)
                     /\ producerPc' = "put"
                ELSE /\ producerPc' = "raised"
                     /\ UNCHANGED task
    /\ UNCHANGED <<otherVars, configVars, valid_results, task_queue, row_pos, producer_success_count,
                   producer_failed_count, producer_failed_tasks, putLog, consumerVars,
                   producer_stats, consumer_stats, mainVars>>

\* one iteration of the loop up to the put: _process_video, and the failure
\* branch when it returns None
ProducerProcessRow ==
    /\ producerPc = "loop"
    /\ row_pos <= Len(valid_results)
    /\ \E resolved \in ResolveOutcomes, cut \in CutOutcomes :
        LET row_data == valid_results[row_pos]
            outcome == RowOutcome(row_data, resolved, cut)
        IN /\ rowLog' = Append(rowLog, [row |-> row_data.row_index, outcome |-> outcome])
           /\ IF outcome = "ok"
                THEN /\ task' = NewTask(row_data)
                     /\ producerPc' = "put"
                     /\ UNCHANGED <<row_pos, producer_failed_count, producer_failed_tasks>>
                ELSE /\ producer_failed_count' = producer_failed_count + 1
                     /\ producer_failed_tasks' =
                            Append(producer_failed_tasks, ProducerFailureRecord(row_data))
                     /\ row_pos' = row_pos + 1
                     /\ producerPc' = AfterRow(row_pos)
                     /\ UNCHANGED task
    /\ UNCHANGED <<otherVars, configVars, valid_results, task_queue, producer_success_count, putLog,
                   consumerVars, producer_stats, consumer_stats, mainVars>>

\* the loop over no rows at all
ProducerNoRows ==
    /\ producerPc = "loop"
    /\ row_pos > Len(valid_results)
    /\ producerPc' = "put_stop"
    /\ UNCHANGED <<otherVars, configVars, valid_results, task_queue, row_pos, task,
                   producer_success_count, producer_failed_count, producer_failed_tasks,
                   putLog, rowLog, consumerVars, producer_stats, consumer_stats, mainVars>>

\* task_queue.put(task); success_count += 1
ProducerPut ==
    /\ producerPc = "put"
    /\ ~Full
    /\ task_queue' = Put(task_queue, task)
    /\ putLog' = Append(putLog, task)
    /\ producer_success_count' = producer_success_count + 1
    /\ row_pos' = row_pos + 1
    /\ producerPc' = AfterRow(row_pos)
    /\ UNCHANGED <<otherVars, configVars, valid_results, task, producer_failed_count,
                   producer_failed_tasks, rowLog, consumerVars, producer_stats,
                   consumer_stats, mainVars>>

\* mutant of ProducerStats: total counts the rows dropped by the filter too
ProducerStats_TotalAllRows ==
    [set |-> TRUE, total |-> Len(results), success |-> producer_success_count,
     failed |-> producer_failed_count, failed_tasks |-> producer_failed_tasks]

\* the statistics run returns
ProducerStats ==
    [set |-> TRUE, total |-> Len(valid_results), success |-> producer_success_count,
     failed |-> producer_failed_count, failed_tasks |-> producer_failed_tasks]

\* mutant of ProducerPutStop: the sentinel is put only after some task was
ProducerPutStop_OnlyAfterTask ==
    /\ producerPc = "put_stop"
    /\ IF producer_success_count > 0
         THEN /\ ~Full
              /\ task_queue' = Put(task_queue, STOP_SIGNAL)
              /\ putLog' = Append(putLog, STOP_SIGNAL)
         ELSE UNCHANGED <<task_queue, putLog>>
    /\ producer_stats' = ProducerStats
    /\ producerPc' = "done"
    /\ UNCHANGED <<otherVars, configVars, valid_results, row_pos, task, producer_success_count,
                   producer_failed_count, producer_failed_tasks, rowLog, consumerVars,
                   consumer_stats, mainVars>>

\* task_queue.put(STOP_SIGNAL), then return the statistics, which the
\* thread's target stores in main's producer_stats
ProducerPutStop ==
    /\ producerPc = "put_stop"
    /\ ~Full
    /\ task_queue' = Put(task_queue, STOP_SIGNAL)
    /\ putLog' = Append(putLog, STOP_SIGNAL)
    /\ producer_stats' = ProducerStats
    /\ producerPc' = "done"
    /\ UNCHANGED <<otherVars, configVars, valid_results, row_pos, task, producer_success_count,
                   producer_failed_count, producer_failed_tasks, rowLog, consumerVars,
                   consumer_stats, mainVars>>

\* ------------------------------------------------------------- consumer
\* what _process_video and run leave in the task object: neither calls
\* mark_processing, mark_completed or mark_failed, so the task is untouched
TaskAfterProcess(t, success) == t

\* the failure record run appends for a failed task
ConsumerFailureRecord(t) ==
    [row |-> t.row_index, video |-> t.cut_video_path, error |-> "subtitle removal failed"]

\* the statistics run returns
ConsumerStats ==
    [set |-> TRUE, total |-> processed_count, success |-> consumer_success_count,
     failed |-> consumer_failed_count, failed_tasks |-> consumer_failed_tasks]

\* Queue.get: the item at the head
Get(q) == Head(q)

\* mutant of ConsumerGet: the sentinel is put back before the loop ends
ConsumerGet_Requeue ==
    /\ consumerPc = "get"
    /\ task_queue # << >>
    /\ LET item == Get(task_queue)
       IN /\ getLog' = Append(getLog, item)
          /\ IF item = STOP_SIGNAL
               THEN /\ task_queue' = Append(Tail(task_queue), STOP_SIGNAL)
                    /\ consumerPc' = "done"
                    /\ consumer_stats' = ConsumerStats
                    /\ UNCHANGED <<consumer_task, processed_count>>
               ELSE /\ task_queue' = Tail(task_queue)
                    /\ consumerPc' = "process"
                    /\ consumer_task' = item
                    /\ processed_count' = processed_count + 1
                    /\ UNCHANGED consumer_stats
    /\ UNCHANGED <<otherVars, configVars, producerVars, consumer_success_count, consumer_failed_count,
                   consumer_failed_tasks, taskLog, producer_stats, mainVars>>

\* mutant of ConsumerGet: the sentinel does not end the loop
ConsumerGet_NoBreak ==
    /\ consumerPc = "get"
    /\ task_queue # << >>
    /\ LET item == Get(task_queue)
       IN /\ task_queue' = Tail(task_queue)
          /\ getLog' = Append(getLog, item)
          /\ IF item = STOP_SIGNAL
               THEN UNCHANGED <<consumerPc, consumer_task, processed_count>>
               ELSE /\ consumerPc' = "process"
                    /\ consumer_task' = item
                    /\ processed_count' = processed_count + 1
    /\ UNCHANGED <<otherVars, configVars, producerVars, consumer_success_count, consumer_failed_count,
                   consumer_failed_tasks, taskLog, producer_stats, consumer_stats, mainVars>>

\* task = task_queue.get(); on STOP_SIGNAL leave the loop and return the
\* statistics, else count the task as seen
ConsumerGet ==
    /\ consumerPc = "get"
    /\ task_queue # << >>
    /\ LET item == Get(task_queue)
       IN /\ task_queue' = Tail(task_queue)
          /\ getLog' = Append(getLog, item)
          /\ IF item = STOP_SIGNAL
               THEN /\ consumerPc' = "done"
                    /\ consumer_stats' = ConsumerStats
                    /\ UNCHANGED <<consumer_task, processed_count>>
               ELSE /\ consumerPc' = "process"
                    /\ consumer_task' = item
                    /\ processed_count' = processed_count + 1
                    /\ UNCHANGED consumer_stats
    /\ UNCHANGED <<otherVars, configVars, producerVars, consumer_success_count, consumer_failed_count,
                   consumer_failed_tasks, taskLog, producer_stats, mainVars>>

\* success = self._process_video(task), the counters, task_queue.task_done()
ConsumerProcess ==
    /\ consumerPc = "process"
    /\ \E outcome \in RemoverOutcomes :
        LET success == (outcome = "ok")
            done == TaskAfterProcess(consumer_task, success)
        IN /\ taskLog' = Append(taskLog, [task |-> done, success |-> success])
           /\ consumer_task' = done
           /\ IF success
                THEN /\ consumer_success_count' = consumer_success_count + 1
                     /\ UNCHANGED <<consumer_failed_count, consumer_failed_tasks>>
                ELSE /\ consumer_failed_count' = consumer_failed_count + 1
                     /\ consumer_failed_tasks' =
                            Append(consumer_failed_tasks, ConsumerFailureRecord(done))
                     /\ UNCHANGED consumer_success_count
    /\ consumerPc' = "get"
    /\ UNCHANGED <<otherVars, configVars, task_queue, producerVars, processed_count, getLog,
                   producer_stats, consumer_stats, mainVars>>

\* ----------------------------------------------------------------- main
\* producer_thread.start()
MainStartProducer ==
    /\ mainPc = "start_producer"
    /\ producerPc' = "read"
    /\ mainPc' = "start_consumer"
    /\ UNCHANGED <<otherVars, configVars, task_queue, valid_results, row_pos, task,
                   producer_success_count, producer_failed_count, producer_failed_tasks,
                   putLog, rowLog, consumerVars, producer_stats, consumer_stats,
                   exit_code, failed_log, log_raised>>

\* consumer_thread.start()
MainStartConsumer ==
    /\ mainPc = "start_consumer"
    /\ consumerPc' = "get"
    /\ mainPc' = "join_producer"
    /\ UNCHANGED <<otherVars, configVars, task_queue, producerVars, consumer_task, processed_count,
                   consumer_success_count, consumer_failed_count, consumer_failed_tasks,
                   getLog, taskLog, producer_stats, consumer_stats, exit_code, failed_log, log_raised>>

\* producer_thread.join(): returns once the thread has ended, by return or
\* by an uncaught exception
MainJoinProducer ==
    /\ mainPc = "join_producer"
    /\ producerPc \in {"done", "raised"}
    /\ mainPc' = "join_consumer"
    /\ UNCHANGED <<otherVars, configVars, task_queue, producerVars, consumerVars, producer_stats,
                   consumer_stats, exit_code, failed_log, log_raised>>

\* consumer_thread.join()
MainJoinConsumer ==
    /\ mainPc = "join_consumer"
    /\ consumerPc = "done"
    /\ mainPc' = "report"
    /\ UNCHANGED <<otherVars, configVars, task_queue, producerVars, consumerVars, producer_stats,
                   consumer_stats, exit_code, failed_log, log_raised>>

\* mutant of ExitCode: only the producer's failures count
ExitCode_ProducerOnly(producer_failed, consumer_failed) ==
    IF producer_failed > 0 THEN 1 ELSE 0

\* the return code main derives from the two failed counts
ExitCode(producer_failed, consumer_failed) ==
    IF producer_failed + consumer_failed > 0 THEN 1 ELSE 0

\* mutant of AllFailed: the consumer's records come first
AllFailed_ConsumerFirst(pstats, cstats) == cstats.failed_tasks \o pstats.failed_tasks

\* save_failed_tasks_log: the records of both stages, the producer's first
AllFailed(pstats, cstats) == pstats.failed_tasks \o cstats.failed_tasks

\* the rest of main: print_statistics, save_failed_tasks_log, sys.exit.
\* print_statistics raises KeyError on statistics a thread never stored, and
\* writing the log can raise; both end in the handler's sys.exit(1)
MainReport ==
    /\ mainPc = "report"
    /\ \E log_written \in BOOLEAN :
        LET all_failed == AllFailed(producer_stats, consumer_stats)
        IN IF ~producer_stats.set \/ ~consumer_stats.set
             THEN /\ exit_code' = 1
                  /\ UNCHANGED <<failed_log, log_raised>>
             ELSE IF all_failed # << >> /\ ~log_written
               THEN /\ exit_code' = 1
                    /\ log_raised' = TRUE
                    /\ UNCHANGED failed_log
               ELSE /\ failed_log' = all_failed
                    /\ UNCHANGED log_raised
                    /\ exit_code' = ExitCode(producer_stats.failed, consumer_stats.failed)
    /\ mainPc' = "exited"
    /\ UNCHANGED <<otherVars, configVars, task_queue, producerVars, consumerVars, producer_stats,
                   consumer_stats>>

Producer == ProducerRead \/ ProducerProcessRow \/ ProducerNoRows \/ ProducerPut
               \/ ProducerPutStop
Consumer == ConsumerGet \/ ConsumerProcess
Main == MainStartProducer \/ MainStartConsumer \/ MainJoinProducer \/ MainJoinConsumer
           \/ MainReport

Next == Producer \/ Consumer \/ Main

Spec == Init /\ [][Next]_vars

\* both threads and main are scheduled by the operating system: none of
\* them is starved while it can take a step
InitFair == Init /\ Len(results) <= MaxFairRows
FairSpec ==
    InitFair /\ [][Next]_vars /\ WF_vars(Producer) /\ WF_vars(Consumer) /\ WF_vars(Main)

\* ------------------------------------------------------------ VideoTask
\* the stage arguments and error messages the mark_* calls are tried with
Stages == 0..2
ErrorMessages == {"e1", "e2"}

\* the status and stage the producer gives the task it builds
ProducerTaskState ==
    [status |-> NewTask([row_index |-> 2, video_path |-> "a"]).status,
     error |-> None,
     processing_stage |-> NewTask([row_index |-> 2, video_path |-> "a"]).processing_stage]

\* VideoTask.mark_processing(stage)
MarkProcessing ==
    /\ Len(callLog) < MaxCalls
    /\ \E stage \in Stages :
        /\ vt' = [vt EXCEPT !.status = PROCESSING, !.processing_stage = stage]
        /\ callLog' = Append(callLog, <<"mark_processing", stage>>)
    /\ UNCHANGED <<pipelineVars, fileVars, keepVars, cutVars>>

\* VideoTask.mark_completed(stage)
MarkCompleted ==
    /\ Len(callLog) < MaxCalls
    /\ \E stage \in Stages :
        /\ vt' = [vt EXCEPT !.status = COMPLETED, !.processing_stage = stage]
        /\ callLog' = Append(callLog, <<"mark_completed", stage>>)
    /\ UNCHANGED <<pipelineVars, fileVars, keepVars, cutVars>>

\* VideoTask.mark_failed(error_msg)
MarkFailed ==
    /\ Len(callLog) < MaxCalls
    /\ \E error_msg \in ErrorMessages :
        /\ vt' = [vt EXCEPT !.status = FAILED, !.error = error_msg]
        /\ callLog' = Append(callLog, <<"mark_failed", error_msg>>)
    /\ UNCHANGED <<pipelineVars, fileVars, keepVars, cutVars>>

TaskInit ==
    /\ PipelineIdle
    /\ vt \in {DefaultTaskState, ProducerTaskState}
    /\ callLog = << >>
    /\ FilesIdle
    /\ KeepIdle
    /\ CutIdle

TaskNext == MarkProcessing \/ MarkCompleted \/ MarkFailed

\* any sequence of mark_* calls on one VideoTask
TaskSpec == TaskInit /\ [][TaskNext]_vars

\* ------------------------------------------- the consumer's file effects
FileVideoNames == {"a", "b"}

\* sheets whose rows all name a video and hold one interval, without errors
FileSheets ==
    UNION {[1..n -> [video_path : FileVideoNames,
                     segments_to_remove : {<< <<5, 8>> >>},
                     errors : {<< >>}]] : n \in 0..MaxFileTasks}

\* what the collaborators of _process_video do for one task:
\*   raises    SubtitleRemover(...) or remover.run() raises
\*   written   remover.run() writes its output file (given its input exists)
\*   same      remover.video_out_name equals task.final_output_path
\*   move_ok   shutil.move does not raise
\*   remove_ok os.remove does not raise (given the file exists)
RemoverEnvs ==
    [raises : BOOLEAN, written : BOOLEAN, same : BOOLEAN,
     move_ok : BOOLEAN, remove_ok : BOOLEAN]

\* remover.video_out_name
GeneratedOutput(t, env) ==
    IF env.same THEN t.final_output_path ELSE t.cut_video_path \o "_no_sub.mp4"

\* the disk after remover.run()
AfterRun(t, fs, env) ==
    IF env.written /\ t.cut_video_path \in fs
      THEN fs \cup {GeneratedOutput(t, env)}
      ELSE fs

\* mutant of OutputExists: the declared output is not looked for
OutputExists_Unchecked(generated_output, fs) == TRUE

\* Path(generated_output).exists()
OutputExists(generated_output, fs) == generated_output \in fs

\* mutant of AfterMove: the artifact is left where the collaborator wrote it
AfterMove_LeftInPlace(t, generated_output, fs) == fs

\* the disk after the move: if generated_output != task.final_output_path,
\* shutil.move(generated_output, task.final_output_path)
AfterMove(t, generated_output, fs) ==
    IF generated_output # t.final_output_path
      THEN (fs \ {generated_output}) \cup {t.final_output_path}
      ELSE fs

\* mutant of AfterDelete: keep_intermediate is not consulted
AfterDelete_IgnoreKeep(t, fs, keep, env) ==
    IF env.remove_ok THEN fs \ {t.cut_video_path} ELSE fs

\* the disk after: if not keep_intermediate, try os.remove(task.cut_video_path)
AfterDelete(t, fs, keep, env) ==
    IF ~keep /\ env.remove_ok THEN fs \ {t.cut_video_path} ELSE fs

\* _process_video: the disk it leaves and the value it returns
ProcessVideo(t, fs, keep, env) ==
    LET generated_output == GeneratedOutput(t, env)
        run == AfterRun(t, fs, env)
    IN IF env.raises
         THEN [files |-> run, success |-> FALSE]
       ELSE IF ~OutputExists(generated_output, run)
         THEN [files |-> run, success |-> FALSE]
       ELSE IF generated_output # t.final_output_path /\ ~env.move_ok
         THEN [files |-> run, success |-> FALSE]
       ELSE [files |-> AfterDelete(t, AfterMove(t, generated_output, run), keep, env),
             success |-> TRUE]

\* success = self._process_video(task), the counters, task_queue.task_done(),
\* with the files _process_video touches
ConsumerProcessVideo ==
    /\ consumerPc = "process"
    /\ \E env \in RemoverEnvs :
        LET r == ProcessVideo(consumer_task, files, keep_intermediate, env)
            done == TaskAfterProcess(consumer_task, r.success)
        IN /\ files' = r.files
           /\ fileLog' = Append(fileLog, [task |-> done, env |-> env, before |-> files,
                                          after |-> r.files, success |-> r.success])
           /\ taskLog' = Append(taskLog, [task |-> done, success |-> r.success])
           /\ consumer_task' = done
           /\ IF r.success
                THEN /\ consumer_success_count' = consumer_success_count + 1
                     /\ UNCHANGED <<consumer_failed_count, consumer_failed_tasks>>
                ELSE /\ consumer_failed_count' = consumer_failed_count + 1
                     /\ consumer_failed_tasks' =
                            Append(consumer_failed_tasks, ConsumerFailureRecord(done))
                     /\ UNCHANGED consumer_success_count
    /\ consumerPc' = "get"
    /\ UNCHANGED <<taskVars, keepVars, cutVars, keep_intermediate, configVars, task_queue, producerVars,
                   processed_count, getLog, producer_stats, consumer_stats, mainVars>>

\* the tasks the producer enqueues for a sheet whose cuts all succeed
TasksOf(rows) == [i \in 1..Len(rows) |-> NewTask(rows[i])]

\* the pipeline once the producer has cut every row of the sheet, put the
\* tasks and the sentinel on an unbounded queue and returned, with the
\* consumer started and about to get its first item
ProducerFinished(rows) ==
    /\ max_queue_size = 0
    /\ results = rows
    /\ valid_results = FilterValid(rows)
    /\ task_queue = Append(TasksOf(rows), STOP_SIGNAL)
    /\ producerPc = "done"
    /\ row_pos = Len(rows) + 1
    /\ task = IF rows = << >> THEN STOP_SIGNAL ELSE NewTask(rows[Len(rows)])
    /\ producer_success_count = Len(rows)
    /\ producer_failed_count = 0
    /\ producer_failed_tasks = << >>
    /\ consumerPc = "get"
    /\ consumer_task = STOP_SIGNAL
    /\ processed_count = 0
    /\ consumer_success_count = 0
    /\ consumer_failed_count = 0
    /\ consumer_failed_tasks = << >>
    /\ producer_stats = [set |-> TRUE, total |-> Len(rows), success |-> Len(rows),
                         failed |-> 0, failed_tasks |-> << >>]
    /\ consumer_stats = NoStats
    /\ mainPc = "join_producer"
    /\ exit_code = -1
    /\ failed_log = << >>
    /\ log_raised = FALSE
    /\ putLog = Append(TasksOf(rows), STOP_SIGNAL)
    /\ getLog = << >>
    /\ rowLog = [i \in 1..Len(rows) |-> [row |-> rows[i].row_index, outcome |-> "ok"]]
    /\ taskLog = << >>

\* every cut has left its intermediate file on disk
ConsumerInit ==
    /\ \E s \in FileSheets : ProducerFinished(WithRowIndex(s))
    /\ TaskIdle
    /\ keep_intermediate \in BOOLEAN
    /\ files = {task_queue[i].cut_video_path : i \in 1..(Len(task_queue) - 1)}
    /\ fileLog = << >>
    /\ KeepIdle
    /\ CutIdle

ConsumerNext == ConsumerGet \/ ConsumerProcessVideo

\* the consumer thread working off a queue the producer has filled
ConsumerSpec == ConsumerInit /\ [][ConsumerNext]_vars

\* ------------------------------------------------ calculate_keep_segments
Max(a, b) == IF a >= b THEN a ELSE b

\* one insertion of the stable sort: seg goes behind every segment whose
\* start is not greater than its own
InsertByStart(seg, sorted) ==
    LET k == Cardinality({i \in 1..Len(sorted) : sorted[i][1] <= seg[1]})
    IN SubSeq(sorted, 1, k) \o <<seg>> \o SubSeq(sorted, k + 1, Len(sorted))

\* mutant of SortedSegments: the segments are taken in the order given
SortedSegments_AsGiven(segs) == segs

\* sorted(remove_segments, key=lambda x: x[0])
RECURSIVE SortedSegments(_)
SortedSegments(segs) ==
    IF segs = << >> THEN << >>
    ELSE InsertByStart(segs[Len(segs)], SortedSegments(SubSeq(segs, 1, Len(segs) - 1)))

\* mutant of MergeStep: a segment that only touches the last merged one
\* starts a new one
MergeStep_StrictOverlap(merged, seg) ==
    IF merged = << >> THEN <<seg>>
    ELSE LET last == merged[Len(merged)]
         IN IF seg[1] < last[2]
              THEN [merged EXCEPT ![Len(merged)] = <<last[1], Max(last[2], seg[2])>>]
              ELSE Append(merged, seg)

\* mutant of MergeStep: an overlapping segment replaces the end of the last
\* merged one
MergeStep_NoMax(merged, seg) ==
    IF merged = << >> THEN <<seg>>
    ELSE LET last == merged[Len(merged)]
         IN IF seg[1] <= last[2]
              THEN [merged EXCEPT ![Len(merged)] = <<last[1], seg[2]>>]
              ELSE Append(merged, seg)

\* one iteration of the merge loop
MergeStep(merged, seg) ==
    IF merged = << >> THEN <<seg>>
    ELSE LET last == merged[Len(merged)]
         IN IF seg[1] <= last[2]
              THEN [merged EXCEPT ![Len(merged)] = <<last[1], Max(last[2], seg[2])>>]
              ELSE Append(merged, seg)

\* the merge loop over the sorted segments
RECURSIVE MergeAll(_, _)
MergeAll(merged, rest) ==
    IF rest = << >> THEN merged
    ELSE MergeAll(MergeStep(merged, Head(rest)), Tail(rest))

\* the loop over the merged segments: the gaps before each of them, and
\* current_pos after the last
RECURSIVE GapsFrom(_, _, _)
GapsFrom(keep, current_pos, rest) ==
    IF rest = << >> THEN [keep_segments |-> keep, current_pos |-> current_pos]
    ELSE LET start == Head(rest)[1]
             end == Head(rest)[2]
         IN GapsFrom(IF current_pos < start THEN Append(keep, <<current_pos, start>>)
                                            ELSE keep,
                     Max(current_pos, end), Tail(rest))

\* mutant of calculate_keep_segments: the interval behind the last removal
\* is not appended
calculate_keep_segments_NoTail(duration, segs) ==
    IF segs = << >> THEN << <<0, duration>> >>
    ELSE GapsFrom(<< >>, 0, MergeAll(<< >>, SortedSegments(segs))).keep_segments

calculate_keep_segments(duration, segs) ==
    IF segs = << >> THEN << <<0, duration>> >>
    ELSE LET merged == MergeAll(<< >>, SortedSegments(segs))
             gaps == GapsFrom(<< >>, 0, merged)
         IN IF gaps.current_pos < duration
              THEN Append(gaps.keep_segments, <<gaps.current_pos, duration>>)
              ELSE gaps.keep_segments

\* the intervals a row can hold: parse_timestamp checks neither start < end
\* nor the video's duration
SegmentValues == (0..(MaxDuration + 1)) \X (0..(MaxDuration + 1))
SegmentLists == UNION {[1..n -> SegmentValues] : n \in 0..MaxSegments}

\* the worked example: a video of 100 s with three removal intervals, two
\* of them overlapping
Scenario ==
    [total_duration |-> 100,
     remove_segments |-> << <<10, 20>>, <<15, 25>>, <<50, 60>> >>]

KeepInit ==
    /\ PipelineIdle
    /\ TaskIdle
    /\ FilesIdle
    /\ CutIdle
    /\ \/ /\ total_duration \in 0..MaxDuration
          /\ remove_segments \in SegmentLists
       \/ /\ total_duration = Scenario.total_duration
          /\ remove_segments = Scenario.remove_segments
    /\ keep_segments = << >>
    /\ keepPc = "call"

\* keep_segments = calculate_keep_segments(duration, segments)
CalculateKeepSegments ==
    /\ keepPc = "call"
    /\ keep_segments' = calculate_keep_segments(total_duration, remove_segments)
    /\ keepPc' = "returned"
    /\ UNCHANGED <<pipelineVars, taskVars, fileVars, cutVars, total_duration,
                   remove_segments>>

KeepNext == CalculateKeepSegments

\* one call of calculate_keep_segments on any duration and interval list
KeepSpec == KeepInit /\ [][KeepNext]_vars

\* --------------------------------------------------- remove_video_segments
\* get_video_duration returned None
NoDuration == -1

\* what the collaborators of remove_video_segments do for one call:
\*   duration    what get_video_duration parses from the probe, or NoDuration
\*   copy_ok     shutil.copy does not raise
\*   returncode  the exit status of the encoder run in transform mode
\*   written     that run leaves a file at output_path
CutEnvs ==
    [duration : {NoDuration} \cup (1..MaxDuration), copy_ok : BOOLEAN,
     returncode : {0, 1}, written : BOOLEAN]

\* the removal lists of the rows whose cuts are followed: the whole of the
\* longest video, its middle, its first second
CutSegmentChoices ==
    {<< <<0, MaxDuration>> >>, << <<1, 2>> >>, << <<0, 1>> >>}

CutSheets ==
    UNION {[1..n -> [video_path : VideoNames,
                     segments_to_remove : CutSegmentChoices,
                     errors : {<< >>}]] : n \in 0..MaxCutRows}

\* the single trim: -ss start -t (end - start) -i input -c copy output -y
TrimCopy(keep, returncode) ==
    [mode |-> "trim_copy", ss |-> keep[1][1], t |-> keep[1][2] - keep[1][1],
     trims |-> << >>, concat_inputs |-> << >>, n |-> 0, returncode |-> returncode]

\* the filter graph: one [v_i][a_i] pair trimmed to each keep interval, the
\* pairs listed in the order of enumerate(keep_segments), concat=n=len
ConcatFilter(keep, returncode) ==
    [mode |-> "concat", ss |-> 0, t |-> 0,
     trims |-> [i \in 1..Len(keep) |->
                   [label |-> i - 1, start |-> keep[i][1], end |-> keep[i][2]]],
     concat_inputs |-> [i \in 1..Len(keep) |-> i - 1],
     n |-> Len(keep), returncode |-> returncode]

\* mutant of EncoderPlan: the concat filter graph is built for one interval too
EncoderPlan_AlwaysConcat(keep, returncode) == ConcatFilter(keep, returncode)

\* the encoder invocation chosen by the number of keep intervals
EncoderPlan(keep, returncode) ==
    IF Len(keep) = 1 THEN TrimCopy(keep, returncode) ELSE ConcatFilter(keep, returncode)

\* remove_video_segments was not called for the row
NotCalled ==
    [called |-> FALSE, duration |-> NoDuration, keep_computed |-> FALSE,
     keep_segments |-> << >>, copied |-> FALSE, copy_raised |-> FALSE,
     invocations |-> << >>,
     output_written |-> FALSE, result |-> FALSE]

\* mutant of RemoveVideoSegments: an empty keep list is reported as a failure
RemoveVideoSegments_EmptyKeepFails(segments_to_remove, env) ==
    IF env.duration = NoDuration THEN [NotCalled EXCEPT !.called = TRUE]
    ELSE LET keep == calculate_keep_segments(env.duration, segments_to_remove)
             base == [NotCalled EXCEPT !.called = TRUE, !.duration = env.duration,
                                       !.keep_computed = TRUE, !.keep_segments = keep]
         IN IF keep = << >>
              THEN base
              ELSE [base EXCEPT !.invocations = <<EncoderPlan(keep, env.returncode)>>,
                                !.output_written = env.written,
                                !.result = (env.returncode = 0)]

\* mutant of RemoveVideoSegments: the intervals are computed and the encoder
\* is run on an unparsed duration, taken as the longest one
RemoveVideoSegments_NoProbeCheck(segments_to_remove, env) ==
    LET duration == IF env.duration = NoDuration THEN MaxDuration ELSE env.duration
        keep == calculate_keep_segments(duration, segments_to_remove)
        base == [NotCalled EXCEPT !.called = TRUE, !.duration = env.duration,
                                  !.keep_computed = TRUE, !.keep_segments = keep]
    IN IF keep = << >>
         THEN IF env.copy_ok
                THEN [base EXCEPT !.copied = TRUE, !.output_written = TRUE, !.result = TRUE]
                ELSE [base EXCEPT !.copy_raised = TRUE]
         ELSE [base EXCEPT !.invocations = <<EncoderPlan(keep, env.returncode)>>,
                           !.output_written = env.written,
                           !.result = (env.returncode = 0)]

\* mutant of RemoveVideoSegments: a failed encoder run is repeated once
RemoveVideoSegments_Retry(segments_to_remove, env) ==
    IF env.duration = NoDuration THEN [NotCalled EXCEPT !.called = TRUE]
    ELSE LET keep == calculate_keep_segments(env.duration, segments_to_remove)
             base == [NotCalled EXCEPT !.called = TRUE, !.duration = env.duration,
                                       !.keep_computed = TRUE, !.keep_segments = keep]
         IN IF keep = << >>
              THEN IF env.copy_ok
                     THEN [base EXCEPT !.copied = TRUE, !.output_written = TRUE,
                                       !.result = TRUE]
                     ELSE [base EXCEPT !.copy_raised = TRUE]
              ELSE [base EXCEPT
                      !.invocations =
                          IF env.returncode = 0
                            THEN <<EncoderPlan(keep, env.returncode)>>
                            ELSE <<EncoderPlan(keep, env.returncode),
                                   EncoderPlan(keep, env.returncode)>>,
                      !.output_written = env.written,
                      !.result = (env.returncode = 0)]

\* remove_video_segments: what it computed, what it ran and what it returned
RemoveVideoSegments(segments_to_remove, env) ==
    IF env.duration = NoDuration THEN [NotCalled EXCEPT !.called = TRUE]
    ELSE LET keep == calculate_keep_segments(env.duration, segments_to_remove)
             base == [NotCalled EXCEPT !.called = TRUE, !.duration = env.duration,
                                       !.keep_computed = TRUE, !.keep_segments = keep]
         IN IF keep = << >>
              THEN IF env.copy_ok
                     THEN [base EXCEPT !.copied = TRUE, !.output_written = TRUE,
                                       !.result = TRUE]
                     ELSE [base EXCEPT !.copy_raised = TRUE]
              ELSE [base EXCEPT !.invocations = <<EncoderPlan(keep, env.returncode)>>,
                                !.output_written = env.written,
                                !.result = (env.returncode = 0)]

\* what _process_video sees of the call
CutOutcome(r) ==
    IF r.result THEN "ok"
    ELSE IF r.duration = NoDuration THEN "probe_failed"
    ELSE "encoder_failed"

\* one iteration of the producer's loop up to the put, with the call of
\* remove_video_segments followed in detail
ProducerProcessRowCut ==
    /\ producerPc = "loop"
    /\ row_pos <= Len(valid_results)
    /\ \E resolved \in ResolveOutcomes, env \in CutEnvs :
        LET row_data == valid_results[row_pos]
            reached == RowOutcome(row_data, resolved, "ok") = "ok"
            r == IF reached THEN RemoveVideoSegments(row_data.segments_to_remove, env)
                            ELSE NotCalled
            outcome == RowOutcome(row_data, resolved, CutOutcome(r))
        IN /\ rowLog' = Append(rowLog, [row |-> row_data.row_index, outcome |-> outcome])
           /\ cutLog' = Append(cutLog, r)
           /\ IF outcome = "ok"
                THEN /\ task' = NewTask(row_data)
                     /\ producerPc' = "put"
                     /\ UNCHANGED <<row_pos, producer_failed_count, producer_failed_tasks>>
                ELSE /\ producer_failed_count' = producer_failed_count + 1
                     /\ producer_failed_tasks' =
                            Append(producer_failed_tasks, ProducerFailureRecord(row_data))
                     /\ row_pos' = row_pos + 1
                     /\ producerPc' = AfterRow(row_pos)
                     /\ UNCHANGED task
    /\ UNCHANGED <<taskVars, fileVars, keepVars, configVars, valid_results, task_queue,
                   producer_success_count, putLog, consumerVars, producer_stats,
                   consumer_stats, mainVars>>

CutInit ==
    /\ max_queue_size = 0
    /\ results \in {WithRowIndex(s) : s \in CutSheets}
    /\ PipelineStart
    /\ TaskIdle
    /\ FilesIdle
    /\ KeepIdle
    /\ CutIdle

CutNext ==
    \/ MainStartProducer
    \/ ProducerRead
    \/ ProducerProcessRowCut
    \/ ProducerNoRows
    \/ ProducerPut
    \/ ProducerPutStop

\* the producer thread alone, on an unbounded queue, with every call of
\* remove_video_segments followed in detail
CutSpec == CutInit /\ [][CutNext]_vars

\* ------------------------------------------------------- helper operators
CountStop(s) == Cardinality({i \in 1..Len(s) : s[i] = STOP_SIGNAL})
Tasks(s) == SelectSeq(s, LAMBDA x : x # STOP_SIGNAL)
IsPrefix(a, b) == Len(a) <= Len(b) /\ \A i \in 1..Len(a) : a[i] = b[i]
RowsOf(s) == [i \in 1..Len(s) |-> s[i].row_index]
OkRows == SelectSeq(rowLog, LAMBDA e : e.outcome = "ok")
FailedRows == SelectSeq(rowLog, LAMBDA e : e.outcome # "ok")
FailedTaskEntries == SelectSeq(taskLog, LAMBDA e : ~e.success)
Increasing(s) == \A i, j \in 1..Len(s) : i < j => s[i] < s[j]
\* a row that passes the producer's validation of the sheet's data
ValidRow(r) == r.video_path # NoPath /\ r.errors = << >> /\ r.segments_to_remove # << >>
NoValidRows == \A i \in 1..Len(results) : ~ValidRow(results[i])

\* ------------------------------------------------------------------ claims

\* C1: once every row has been processed the producer has put exactly one
\* STOP_SIGNAL, it is the last item it put, and it never puts a second one,
\* however many rows failed.
C1_ExactlyOneStop ==
    /\ CountStop(putLog) <= 1
    /\ CountStop(putLog) = 1 =>
          /\ putLog[Len(putLog)] = STOP_SIGNAL
          /\ Len(rowLog) = Len(valid_results)
    /\ producerPc = "done" =>
          /\ CountStop(putLog) = 1
          /\ Len(rowLog) = Len(valid_results)

\* C1 witness: the producer finished a sheet of several rows that all failed
C1_Witness ==
    /\ producerPc = "done"
    /\ Len(valid_results) >= 2
    /\ producer_failed_count = Len(valid_results)
    /\ putLog = <<STOP_SIGNAL>>

\* C2: once the sheet has been read the pipeline terminates under fair
\* scheduling, for every row list and queue size: both threads finish and
\* main exits; with zero valid rows the producer puts one STOP_SIGNAL and no
\* task and the consumer ends having processed no task.
C2_Terminates ==
    /\ (producerPc = "loop") ~>
          (producerPc = "done" /\ consumerPc = "done" /\ mainPc = "exited")
    /\ [](producerPc = "done" /\ NoValidRows => putLog = <<STOP_SIGNAL>>)
    /\ [](consumerPc = "done" /\ NoValidRows =>
              consumer_stats.total = 0 /\ taskLog = << >>)

\* C2 witness: main exited after two tasks went through a queue of size 1
C2_Witness ==
    /\ mainPc = "exited"
    /\ max_queue_size = 1
    /\ consumer_stats.total >= 2

\* C3: when reading the sheet raises in the producer, the process still
\* terminates: until main has exited some thread can take a step.
C3_ReadFailureTerminates ==
    producerPc = "raised" => (mainPc = "exited" \/ ENABLED Next)

\* C4: a queue of capacity N >= 1 never holds more than N items, and while
\* it holds N items the producer puts nothing.
C4_BoundedQueue ==
    /\ [](max_queue_size >= 1 => Len(task_queue) <= max_queue_size)
    /\ [][(max_queue_size >= 1 /\ Len(task_queue) >= max_queue_size)
             => putLog' = putLog]_vars

\* C4 witness: the producer waits to put on a full queue
C4_Witness ==
    /\ max_queue_size >= 1
    /\ Len(task_queue) = max_queue_size
    /\ producerPc \in {"put", "put_stop"}

\* C5: the consumer dequeues the tasks in the order the producer enqueued
\* them, which is the row order of the rows whose cut succeeded.
C5_Fifo ==
    /\ IsPrefix(getLog, putLog)
    /\ Increasing(RowsOf(Tasks(getLog)))
    /\ IsPrefix(RowsOf(Tasks(putLog)), [i \in 1..Len(OkRows) |-> OkRows[i].row])
    /\ Increasing([i \in 1..Len(rowLog) |-> rowLog[i].row])
    /\ consumerPc = "done" => getLog = putLog

\* C5 witness: the consumer has dequeued two tasks while a third item waits
C5_Witness ==
    /\ Len(Tasks(getLog)) >= 2
    /\ task_queue # << >>

\* C6: a failed row does not stop the producer and a failed task does not
\* stop the consumer: the producer handles every row, the consumer every
\* enqueued task, and each failure is exactly one failure record.
C6_NoAbort ==
    /\ producerPc \in {"put_stop", "done"} =>
          [i \in 1..Len(rowLog) |-> rowLog[i].row] = RowsOf(valid_results)
    /\ [i \in 1..Len(producer_failed_tasks) |-> producer_failed_tasks[i].row]
          = [i \in 1..Len(FailedRows) |-> FailedRows[i].row]
    /\ consumerPc = "done" /\ producerPc = "done" =>
          RowsOf([i \in 1..Len(taskLog) |-> taskLog[i].task]) = RowsOf(Tasks(putLog))
    /\ [i \in 1..Len(consumer_failed_tasks) |-> consumer_failed_tasks[i].row]
          = RowsOf([i \in 1..Len(FailedTaskEntries) |-> FailedTaskEntries[i].task])

\* C6 witness: a row failed before a later row was cut, and a task failed
\* before a later task was processed
C6_Witness ==
    /\ producerPc = "done" /\ consumerPc = "done"
    /\ Len(rowLog) = 3 /\ rowLog[1].outcome # "ok"
    /\ Len(taskLog) = 2 /\ ~taskLog[1].success /\ taskLog[2].success

\* C7: the statistics a stage returns satisfy total = success + failed and
\* len(failed_tasks) = failed; during the run success + failed <= total.
C7_Stats ==
    /\ producer_stats.set =>
          /\ producer_stats.total = producer_stats.success + producer_stats.failed
          /\ Len(producer_stats.failed_tasks) = producer_stats.failed
    /\ consumer_stats.set =>
          /\ consumer_stats.total = consumer_stats.success + consumer_stats.failed
          /\ Len(consumer_stats.failed_tasks) = consumer_stats.failed
    /\ producer_success_count + producer_failed_count <= Len(valid_results)
    /\ consumer_success_count + consumer_failed_count <= processed_count

\* C7 witness: both stages returned statistics holding failures and successes
C7_Witness ==
    /\ producer_stats.set /\ consumer_stats.set
    /\ producer_stats.failed >= 1 /\ producer_stats.success >= 2
    /\ consumer_stats.failed >= 1 /\ consumer_stats.success >= 1

\* C8: main exits with status 0 exactly when the two failed counts add up
\* to zero, and with a non-zero status otherwise.
C8_ExitStatus ==
    mainPc = "exited" =>
        /\ exit_code >= 0
        /\ exit_code = 0 <=> producer_stats.failed + consumer_stats.failed = 0

\* C8 witness: main exited non-zero on a consumer failure alone
C8_Witness ==
    /\ mainPc = "exited"
    /\ exit_code # 0
    /\ producer_stats.failed = 0
    /\ consumer_stats.failed >= 1

\* C9: no task waiting in the queue has status COMPLETED.
C9_QueuedNotCompleted ==
    \A i \in 1..Len(task_queue) :
        task_queue[i] # STOP_SIGNAL => task_queue[i].status # COMPLETED

\* C10: every task whose outcome the consumer has recorded is in processing
\* stage 2 or has status FAILED.
C10_DequeuedTransitions ==
    \A i \in 1..Len(taskLog) :
        taskLog[i].task.processing_stage = 2 \/ taskLog[i].task.status = FAILED

\* the status moves the state machine Pending -> Processing -> {Completed,
\* Failed} allows
LegalStatusMoves ==
    {<<PENDING, PROCESSING>>, <<PROCESSING, COMPLETED>>, <<PROCESSING, FAILED>>}

\* C11: COMPLETED and FAILED are terminal: no mark_* call changes such a
\* status, and every change of status is a move along Pending -> Processing
\* -> {Completed, Failed}.
C11_TerminalStatus ==
    [][/\ vt.status \in {COMPLETED, FAILED} => vt'.status = vt.status
       /\ vt'.status # vt.status => <<vt.status, vt'.status>> \in LegalStatusMoves]_vars

\* the rows of the sheet without a source reference, and the others
NoPathRows == {i \in 1..Len(results) : results[i].video_path = NoPath}
PathRows == {i \in 1..Len(results) : results[i].video_path # NoPath}
\* the sheet row a row_index names
SheetRow(row_index) == results[row_index - 1]
\* the enqueued or about to be enqueued tasks of a row
PutRows == {putLog[i].row_index : i \in 1..Len(putLog)}
RecordedRows == {producer_failed_tasks[i].row : i \in 1..Len(producer_failed_tasks)}
HandledRows == {rowLog[i].row : i \in 1..Len(rowLog)}

\* C12 as stated: once the producer is done, every row without a source
\* reference has a failure record and is counted in total and failed.
C12_EmptyPathRecorded ==
    producerPc = "done" =>
        /\ \A i \in NoPathRows : results[i].row_index \in RecordedRows
        /\ producer_stats.total = Len(results)

\* C12 amended: a row without a source reference is dropped before the loop:
\* it is never processed, gets no failure record and no task, and is counted
\* neither in total nor in failed.
C12_EmptyPathDropped ==
    /\ \A i \in NoPathRows :
          /\ results[i].row_index \notin HandledRows
          /\ results[i].row_index \notin RecordedRows
          /\ results[i].row_index \notin PutRows
    /\ producer_stats.set =>
          /\ producer_stats.total = Cardinality(PathRows)
          /\ producer_stats.failed <= Cardinality(PathRows)

\* C12 witness: the producer finished a sheet holding a row without a source
\* reference but with timestamps, next to a row that failed
C12_Witness ==
    /\ producerPc = "done"
    /\ \E i \in NoPathRows : results[i].segments_to_remove # << >>
    /\ producer_stats.failed >= 1

\* C13: failure records of rows that failed for a parse error, for missing
\* timestamps and for a source not found carry pairwise different reasons.
C13_ReasonsDistinguish ==
    \A i, j \in 1..Len(producer_failed_tasks) :
        (/\ FailedRows[i].outcome \in {"parse_error", "no_timestamps", "source_not_found"}
         /\ FailedRows[j].outcome \in {"parse_error", "no_timestamps", "source_not_found"}
         /\ FailedRows[i].outcome # FailedRows[j].outcome)
        => producer_failed_tasks[i].error # producer_failed_tasks[j].error

C15_EnqueuedAfterCut ==
    /\ \A i \in 1..Len(putLog) :
          putLog[i] # STOP_SIGNAL =>
              /\ putLog[i].processing_stage >= 1
              /\ \E j \in 1..Len(rowLog) :
                    rowLog[j].row = putLog[i].row_index /\ rowLog[j].outcome = "ok"
    /\ \A j \in 1..Len(rowLog) :
          rowLog[j].outcome # "ok" => rowLog[j].row \notin PutRows
    /\ \A i \in 1..Len(task_queue) : task_queue[i].processing_stage >= IF task_queue[i] = STOP_SIGNAL THEN 0 ELSE 1

\* C15 witness: a task is enqueued after an earlier row's cut failed
C15_Witness ==
    /\ \E j \in 1..Len(rowLog) : rowLog[j].outcome = "encoder_failed"
    /\ \E i \in 1..Len(task_queue) : task_queue[i] # STOP_SIGNAL

\* what the consumer met for the i-th task it processed
DeclaredOutput(i) == GeneratedOutput(fileLog[i].task, fileLog[i].env)
DiskAfterRun(i) == AfterRun(fileLog[i].task, fileLog[i].before, fileLog[i].env)
\* remover.run() returned and its declared output is not on disk
OutputMissing(i) == ~fileLog[i].env.raises /\ DeclaredOutput(i) \notin DiskAfterRun(i)
\* remover.run() returned, its declared output is on disk, elsewhere than
\* final_output_path
MoveNeeded(i) ==
    /\ ~fileLog[i].env.raises
    /\ DeclaredOutput(i) \in DiskAfterRun(i)
    /\ DeclaredOutput(i) # fileLog[i].task.final_output_path
\* the intermediate file was on disk before the task and is gone after it
IntermediateDeleted(i) ==
    /\ fileLog[i].task.cut_video_path \in fileLog[i].before
    /\ fileLog[i].task.cut_video_path \notin fileLog[i].after
FailureRecordsOf(t) ==
    {k \in 1..Len(consumer_failed_tasks) : consumer_failed_tasks[k].row = t.row_index}

\* C16: when the remover's run returns but its declared output does not
\* exist, the task is counted as failed with one failure record, its
\* intermediate file is not deleted, and the consumer goes on: it ends only
\* at the sentinel, having processed every queued task.
C16_MissingOutputFails ==
    /\ \A i \in 1..Len(fileLog) :
          OutputMissing(i) =>
              /\ ~fileLog[i].success
              /\ ~taskLog[i].success
              /\ Cardinality(FailureRecordsOf(fileLog[i].task)) = 1
              /\ ~IntermediateDeleted(i)
              /\ fileLog[i].after = DiskAfterRun(i)
    /\ consumer_failed_count = Len(consumer_failed_tasks)
    /\ consumerPc = "done" => Len(fileLog) = Len(putLog) - 1

\* C16 witness: the first task's declared output was missing, the second
\* task was processed after it and succeeded, and the consumer ended
C16_Witness ==
    /\ consumerPc = "done"
    /\ Len(fileLog) = 2
    /\ OutputMissing(1)
    /\ fileLog[2].success

\* C17: the intermediate file of a task is deleted only when the task
\* succeeded and keep_intermediate is false; a deletion that fails leaves
\* the task a success and the file on disk; no other file is deleted apart
\* from the moved output.
C17_DeleteOnlyOnSuccess ==
    \A i \in 1..Len(fileLog) :
        /\ IntermediateDeleted(i) => fileLog[i].success /\ ~keep_intermediate
        /\ fileLog[i].before \ fileLog[i].after
               \subseteq {fileLog[i].task.cut_video_path, DeclaredOutput(i)}
        /\ (/\ ~fileLog[i].env.raises
            /\ DeclaredOutput(i) \in DiskAfterRun(i)
            /\ ~MoveNeeded(i) \/ fileLog[i].env.move_ok
            /\ ~keep_intermediate
            /\ ~fileLog[i].env.remove_ok)
           => /\ fileLog[i].success
              /\ taskLog[i].success
              /\ FailureRecordsOf(fileLog[i].task) = {}
              /\ ~IntermediateDeleted(i)

\* C17 witness: one task's intermediate file was deleted, and another task
\* succeeded although deleting its intermediate file failed
C17_Witness ==
    /\ ~keep_intermediate
    /\ \E i, j \in 1..Len(fileLog) :
          /\ IntermediateDeleted(i)
          /\ fileLog[j].success
          /\ ~fileLog[j].env.remove_ok
          /\ fileLog[j].task.cut_video_path \in fileLog[j].after

\* C18: when a task is counted as a success, a file is at its
\* final_output_path: moved there when the declared output was elsewhere
\* (which is then gone), left in place when the two paths are equal; a
\* failing move makes the task a failure.
C18_ArtifactAtFinalPath ==
    /\ \A i \in 1..Len(fileLog) :
          /\ taskLog[i].success = fileLog[i].success
          /\ fileLog[i].success =>
                /\ fileLog[i].task.final_output_path \in fileLog[i].after
                /\ DeclaredOutput(i) \in DiskAfterRun(i)
                /\ DeclaredOutput(i) # fileLog[i].task.final_output_path
                       => DeclaredOutput(i) \notin fileLog[i].after
          /\ MoveNeeded(i) /\ ~fileLog[i].env.move_ok =>
                /\ ~fileLog[i].success
                /\ Cardinality(FailureRecordsOf(fileLog[i].task)) = 1
    /\ consumer_success_count =
           Cardinality({i \in 1..Len(fileLog) : fileLog[i].success})

\* C18 witness: one task succeeded after its output was moved, another with
\* its output already at the final path
C18_Witness ==
    \E i, j \in 1..Len(fileLog) :
        /\ fileLog[i].success /\ MoveNeeded(i)
        /\ fileLog[j].success /\ fileLog[j].env.same
        /\ fileLog[j].task.final_output_path \notin fileLog[j].before

\* C19: once main has exited after both stages returned their statistics,
\* and unless writing the file raised, the failure log exists if and only
\* if some failure was recorded, and it holds one entry per failure
\* record: the producer's in order, then the consumer's; it is not written
\* before.
C19_FailureLog ==
    /\ mainPc # "exited" => failed_log = << >>
    /\ (mainPc = "exited" /\ producer_stats.set /\ consumer_stats.set /\ ~log_raised) =>
          /\ failed_log # << >> <=> producer_failed_count + consumer_failed_count > 0
          /\ failed_log = producer_failed_tasks \o consumer_failed_tasks
          /\ Len(failed_log) = producer_failed_count + consumer_failed_count

\* C19 witness: main exited having written a log that holds a producer
\* failure and a consumer failure
C19_Witness ==
    /\ mainPc = "exited"
    /\ ~log_raised
    /\ producer_failed_tasks # << >>
    /\ consumer_failed_tasks # << >>
    /\ Len(failed_log) >= 2

\* the sum of the lengths of a list of intervals
RECURSIVE TotalLength(_)
TotalLength(segs) ==
    IF segs = << >> THEN 0 ELSE (Head(segs)[2] - Head(segs)[1]) + TotalLength(Tail(segs))

\* the seconds [k, k+1] of the video that some removal interval covers:
\* their number is the length of the union of the removal intervals
RemovedSeconds ==
    {k \in 0..(total_duration - 1) :
        \E i \in 1..Len(remove_segments) :
            remove_segments[i][1] <= k /\ k + 1 <= remove_segments[i][2]}

\* every removal interval has start < end and lies within the video
ValidRemoval ==
    /\ total_duration > 0
    /\ \A i \in 1..Len(remove_segments) :
          /\ 0 <= remove_segments[i][1]
          /\ remove_segments[i][1] < remove_segments[i][2]
          /\ remove_segments[i][2] <= total_duration

\* C20: for a positive duration and removal intervals with start < end
\* within the video, in any order and overlapping or not, the keep
\* intervals returned do not overlap, are sorted by start, and their total
\* length is the duration minus the length of the union of the removals.
C20_KeepComplement ==
    (keepPc = "returned" /\ ValidRemoval) =>
        /\ \A i, j \in 1..Len(keep_segments) :
              i < j => /\ keep_segments[i][2] <= keep_segments[j][1]
                       /\ keep_segments[i][1] <= keep_segments[j][1]
        /\ TotalLength(keep_segments) = total_duration - Cardinality(RemovedSeconds)

\* C20 witness: two overlapping removal intervals given out of order, with
\* something left to keep on both sides
C20_Witness ==
    /\ keepPc = "returned"
    /\ ValidRemoval
    /\ Len(remove_segments) = 2
    /\ remove_segments[2][1] < remove_segments[1][1]
    /\ remove_segments[1][1] < remove_segments[2][2]
    /\ Len(keep_segments) >= 1

\* C21: for a positive duration and any removal list a row can hold, also
\* with end <= start or with bounds beyond the duration, the keep intervals
\* returned do not overlap, are sorted by start, and each satisfies
\* 0 <= start < end <= total_duration.
C21_KeepWellFormed ==
    (keepPc = "returned" /\ total_duration > 0) =>
        /\ \A i, j \in 1..Len(keep_segments) :
              i < j => /\ keep_segments[i][2] <= keep_segments[j][1]
                       /\ keep_segments[i][1] <= keep_segments[j][1]
        /\ \A i \in 1..Len(keep_segments) :
              /\ 0 <= keep_segments[i][1]
              /\ keep_segments[i][1] < keep_segments[i][2]
              /\ keep_segments[i][2] <= total_duration

\* the maximal runs of seconds of the video that no removal interval
\* covers, as intervals
UncoveredRuns ==
    {r \in (0..total_duration) \X (0..total_duration) :
        /\ r[1] < r[2]
        /\ \A k \in r[1]..(r[2] - 1) : k \notin RemovedSeconds
        /\ r[1] = 0 \/ (r[1] - 1) \in RemovedSeconds
        /\ r[2] = total_duration \/ r[2] \in RemovedSeconds}

\* C22: for removal intervals within the video, the keep intervals returned
\* are exactly the maximal uncovered sub-intervals of [0, total_duration],
\* in chronological order; the example (100; (10,20),(15,25),(50,60)) gives
\* (0,10),(25,50),(60,100); an empty removal list gives (0, total_duration).
C22_MaximalUncovered ==
    keepPc = "returned" =>
        /\ ValidRemoval =>
              /\ {keep_segments[i] : i \in 1..Len(keep_segments)} = UncoveredRuns
              /\ Len(keep_segments) = Cardinality(UncoveredRuns)
              /\ \A i, j \in 1..Len(keep_segments) :
                    i < j => keep_segments[i][1] < keep_segments[j][1]
        /\ (total_duration = Scenario.total_duration /\ remove_segments = Scenario.remove_segments) =>
              keep_segments = << <<0, 10>>, <<25, 50>>, <<60, 100>> >>
        /\ remove_segments = << >> => keep_segments = << <<0, total_duration>> >>

\* C22 witness: the call on the worked example has returned three keep
\* intervals
C22_Witness ==
    /\ keepPc = "returned"
    /\ total_duration = Scenario.total_duration
    /\ remove_segments = Scenario.remove_segments
    /\ Len(keep_segments) = 3

\* the merged list calculate_keep_segments builds for its arguments
MergedRemoval == MergeAll(<< >>, SortedSegments(remove_segments))

\* C23: for a positive duration, removal intervals that touch are merged
\* into one (for intervals with start < end no two merged intervals touch
\* or overlap), and no keep interval returned has length zero, whatever
\* the removal list.
C23_TouchingMerged ==
    (keepPc = "returned" /\ total_duration > 0) =>
        /\ \A i \in 1..Len(keep_segments) : keep_segments[i][1] # keep_segments[i][2]
        /\ ValidRemoval =>
              /\ \A i \in 1..(Len(MergedRemoval) - 1) :
                    MergedRemoval[i][2] < MergedRemoval[i + 1][1]
              /\ \A i \in 1..(Len(keep_segments) - 1) :
                    keep_segments[i][2] < keep_segments[i + 1][1]

\* C23 witness: two removal intervals that touch, the second starting where
\* the first ends, became one merged interval with a keep interval before it
C23_Witness ==
    /\ keepPc = "returned"
    /\ ValidRemoval
    /\ Len(remove_segments) = 2
    /\ remove_segments[1][2] = remove_segments[2][1]
    /\ Len(MergedRemoval) = 1
    /\ keep_segments = << <<0, remove_segments[1][1]>> >>

\* calculate_keep_segments applied to its own result, and once more
KeepOfKeep == calculate_keep_segments(total_duration, keep_segments)
KeepOfKeepOfKeep == calculate_keep_segments(total_duration, KeepOfKeep)

\* C24: for removal intervals within the video, complementing the returned
\* keep intervals gives the merged form of the removal list, and
\* complementing that gives the keep intervals again.
C24_DoubleComplement ==
    (keepPc = "returned" /\ ValidRemoval) =>
        /\ KeepOfKeep = MergedRemoval
        /\ KeepOfKeepOfKeep = keep_segments

\* C24 witness: two overlapping removal intervals, whose merged form is not
\* the list itself, with something kept
C24_Witness ==
    /\ keepPc = "returned"
    /\ ValidRemoval
    /\ Len(remove_segments) = 2
    /\ Len(MergedRemoval) = 1
    /\ remove_segments[1][2] > remove_segments[2][1]
    /\ remove_segments[1][1] < remove_segments[2][1]
    /\ keep_segments # << >>
    /\ KeepOfKeep # remove_segments

\* the interval the k-th input of the concat filter was trimmed to
ConcatInterval(inv, k) ==
    <<inv.trims[inv.concat_inputs[k] + 1].start, inv.trims[inv.concat_inputs[k] + 1].end>>

\* C25: one keep interval gives exactly one encoder run, the single trim
\* with stream copy; two or more give exactly one run of the concat filter
\* graph with n the number of keep intervals and its inputs trimmed to the
\* keep intervals in their order, which is chronological; no keep interval
\* gives no encoder run.
C25_EncoderPlan ==
    \A i \in 1..Len(cutLog) :
        LET keep == cutLog[i].keep_segments
            inv == cutLog[i].invocations
        IN cutLog[i].keep_computed =>
            /\ Len(keep) = 0 => inv = << >>
            /\ Len(keep) = 1 =>
                  /\ Len(inv) = 1
                  /\ inv[1].mode = "trim_copy"
                  /\ inv[1].ss = keep[1][1]
                  /\ inv[1].ss + inv[1].t = keep[1][2]
            /\ Len(keep) >= 2 =>
                  /\ Len(inv) = 1
                  /\ inv[1].mode = "concat"
                  /\ inv[1].n = Len(keep)
                  /\ Len(inv[1].concat_inputs) = Len(keep)
                  /\ \A k \in 1..Len(keep) : ConcatInterval(inv[1], k) = keep[k]
                  /\ \A k \in 1..(Len(keep) - 1) :
                        ConcatInterval(inv[1], k)[2] <= ConcatInterval(inv[1], k + 1)[1]

\* C25 witness: one row was cut with the concat filter over two keep
\* intervals, another with the single trim
C25_Witness ==
    \E i, j \in 1..Len(cutLog) :
        /\ Len(cutLog[i].keep_segments) = 2
        /\ cutLog[i].invocations # << >>
        /\ Len(cutLog[j].keep_segments) = 1
        /\ cutLog[j].invocations # << >>

\* C26: remove_video_segments returns success only if the encoder run, when
\* there was one, exited with status zero, and the output path exists after
\* the call.
C26_SuccessHasOutput ==
    \A i \in 1..Len(cutLog) :
        cutLog[i].result =>
            /\ cutLog[i].output_written
            /\ \A k \in 1..Len(cutLog[i].invocations) :
                  cutLog[i].invocations[k].returncode = 0

\* C27: when no keep interval is left, the source is copied to the output
\* path unless the copy raises; after the copy the call returns success
\* without any encoder run and the producer enqueues a task for the row.
C27_EmptyKeepCopies ==
    \A i \in 1..Len(cutLog) :
        (cutLog[i].keep_computed /\ cutLog[i].keep_segments = << >>) =>
            /\ cutLog[i].invocations = << >>
            /\ cutLog[i].copied \/ cutLog[i].copy_raised
            /\ cutLog[i].copied =>
                  /\ cutLog[i].result
                  /\ cutLog[i].output_written
                  /\ rowLog[i].outcome = "ok"
                  /\ rowLog[i].row \in PutRows \/ task.row_index = rowLog[i].row
                  /\ producerPc = "done" => rowLog[i].row \in PutRows
                  /\ rowLog[i].row \notin RecordedRows

\* C27 witness: the producer ended after a row whose removal list covers
\* the whole video was copied and its task was put
C27_Witness ==
    /\ producerPc = "done"
    /\ \E i \in 1..Len(cutLog) :
          /\ cutLog[i].keep_computed
          /\ cutLog[i].keep_segments = << >>
          /\ cutLog[i].copied
          /\ rowLog[i].row \in PutRows

\* C28: when the duration cannot be parsed, the call returns failure
\* without computing keep intervals, running the encoder, copying or
\* writing the output; the row gets one failure record and no task.
C28_ProbeFailure ==
    \A i \in 1..Len(cutLog) :
        (cutLog[i].called /\ cutLog[i].duration = NoDuration) =>
            /\ ~cutLog[i].result
            /\ ~cutLog[i].keep_computed
            /\ cutLog[i].invocations = << >>
            /\ ~cutLog[i].copied
            /\ ~cutLog[i].output_written
            /\ rowLog[i].outcome = "probe_failed"
            /\ rowLog[i].row \notin PutRows
            /\ task.row_index # rowLog[i].row
            /\ Cardinality({k \in 1..Len(producer_failed_tasks) :
                               producer_failed_tasks[k].row = rowLog[i].row}) = 1

\* C28 witness: the probe of the first row failed and the producer went on
\* to the second row
C28_Witness ==
    /\ Len(cutLog) = 2
    /\ cutLog[1].called
    /\ cutLog[1].duration = NoDuration

\* C29: the encoder is run at most once per row; a non-zero exit makes the
\* call fail and the row a producer failure without a task, and the
\* producer handles every remaining row before it ends.
C29_NoRetry ==
    /\ \A i \in 1..Len(cutLog) :
          /\ Len(cutLog[i].invocations) <= 1
          /\ (cutLog[i].invocations # << >> /\ cutLog[i].invocations[1].returncode # 0) =>
                /\ ~cutLog[i].result
                /\ rowLog[i].outcome = "encoder_failed"
                /\ rowLog[i].row \in RecordedRows
                /\ rowLog[i].row \notin PutRows
                /\ task.row_index # rowLog[i].row
    /\ Len(cutLog) = Len(rowLog)
    /\ \A i, j \in 1..Len(rowLog) : i < j => rowLog[i].row < rowLog[j].row
    /\ producerPc \in {"put_stop", "done"} => Len(rowLog) = Len(valid_results)

\* C29 witness: the encoder failed on the first row, and the second row was
\* cut and its task put
C29_Witness ==
    /\ producerPc = "done"
    /\ Len(cutLog) = 2
    /\ cutLog[1].invocations # << >>
    /\ cutLog[1].invocations[1].returncode # 0
    /\ cutLog[2].result
    /\ rowLog[2].row \in PutRows

\* the tasks that are enqueued and that the consumer has not finished
UnfinishedTasks ==
    {task_queue[i] : i \in {k \in 1..Len(task_queue) : task_queue[k] # STOP_SIGNAL}}
        \cup (IF consumerPc = "process" THEN {consumer_task} ELSE {})

\* C30: when the producer has just cut a row into its intermediate path
\* and is about to put the task, no task that is enqueued and not yet
\* finished by the consumer names the same intermediate path.
C30_IntermediateNotShared ==
    producerPc = "put" =>
        \A t \in UnfinishedTasks : t.cut_video_path # task.cut_video_path

\* the tasks whose outcome the consumer has recorded, in order
ProcessedTasks == [i \in 1..Len(taskLog) |-> taskLog[i].task]

\* C31: the consumer processes the enqueued tasks in the order they were
\* put, each at most once and none that was not put; when both threads
\* have finished it has processed every one of them, its total equals the
\* producer's success count, and no task is left in the queue.
C31_ProcessedExactlyOnce ==
    /\ IsPrefix(ProcessedTasks, Tasks(putLog))
    /\ Increasing(RowsOf(ProcessedTasks))
    /\ processed_count <= Len(Tasks(putLog))
    /\ (producerPc = "done" /\ consumerPc = "done") =>
          /\ ProcessedTasks = Tasks(putLog)
          /\ consumer_stats.total = producer_stats.success
          /\ consumer_stats.total = Len(taskLog)
          /\ Tasks(task_queue) = << >>

\* C31 witness: both threads have finished after three tasks were put and
\* processed, one of them failing in the consumer
C31_Witness ==
    /\ producerPc = "done"
    /\ consumerPc = "done"
    /\ producer_stats.success = 3
    /\ consumer_stats.failed = 1

\* C32: the consumer dequeues STOP_SIGNAL at most once, as its last item
\* and only after every task that was put; it then has stopped, dequeues
\* nothing more and changes the queue no more; the sentinel is never
\* re-enqueued (every sentinel put is either in the queue or was dequeued),
\* and the queue is empty when both threads have finished.
C32_StopsAtSentinel ==
    /\ [](/\ CountStop(getLog) <= 1
          /\ CountStop(getLog) = 1 <=> consumerPc = "done"
          /\ CountStop(getLog) = 1 =>
                /\ getLog[Len(getLog)] = STOP_SIGNAL
                /\ Tasks(getLog) = Tasks(putLog)
                /\ getLog = putLog
          /\ CountStop(task_queue) + CountStop(getLog) = CountStop(putLog)
          /\ (producerPc = "done" /\ consumerPc = "done") => task_queue = << >>)
    /\ [][consumerPc = "done" =>
            /\ consumerPc' = "done"
            /\ getLog' = getLog
            /\ IsPrefix(task_queue, task_queue')]_vars

\* C32 witness: the consumer has stopped at the sentinel after two tasks,
\* and the producer has finished
C32_Witness ==
    /\ producerPc = "done"
    /\ consumerPc = "done"
    /\ Len(getLog) = 3
    /\ getLog[3] = STOP_SIGNAL
    /\ task_queue = << >>

\* C33: after any sequence of mark_* calls the error field of a VideoTask
\* is set only if its status is FAILED.
C33_ErrorOnlyWhenFailed ==
    vt.error # None => vt.status = FAILED
====
